---- MODULE Spec2Model ----
(***************************************************************************)
(* SiliconBench: the benchmark engine (benchmark_engine.py) and the        *)
(* process lifecycle of the system/extra workloads (workloads_mc.py).      *)
(*                                                                         *)
(* One worker thread executes run_suite step by step (one step per read    *)
(* of self.running, per workload call and per process start/join); any     *)
(* other thread may call stop() between two steps.                         *)
(*                                                                         *)
(* Time is counted in ticks of 0.01 s, so the baselines 0.05, 0.08, ...    *)
(* are 5, 8, ...; a score is computed on these rationals exactly (the      *)
(* rounding of the float operations is not modelled).                      *)
(***************************************************************************)
EXTENDS Integers, Sequences, FiniteSets, TLC

VARIABLES
    running,        \* BenchmarkEngine.running
    num_cores,      \* BenchmarkEngine.num_cores
    num_processes,  \* MCWorkloads.num_processes
    pc,             \* position of the thread executing run_suite
    args,           \* run_suite's arguments run_sc, run_mc, run_extra
    i,              \* position of the current phase loop in its task list
    j,              \* position of a spawn / join loop inside a workload
    sc_scores,      \* run_suite locals: name (index) -> score
    mc_scores,
    ex_scores,
    ret,            \* outcome of the last run_suite call
    mc_pool,        \* live pools of _run_multi_core_pass
    mc_pool_size,   \* worker count of the pool created in this run
    mc_pools_made,  \* pools created by the throughput phase of this run
    ex_pools,       \* live pools created by system/extra workloads
    ex_mgr,         \* live manager processes of the workload being called
    ex_procs,       \* running processes started by the workload being called
    ex_leaked,      \* what workloads that raised have left alive
    uncaught,       \* what left run_suite as an exception: none, pool, sink
    stopLog,        \* where the run_suite thread was at each stop() of this run
    invLog,         \* start / end events of the workload calls of this run
    raised,         \* descriptors of this run whose call raised
    score_arg,      \* arguments of a direct calculate_score call
    score_res,      \* its result
    work_items,     \* _run_multi_core_pass: the list handed to pool.starmap
    mc_scale,       \* the scale_factor of its last calculate_score call
    task_q,         \* work items of the batch no pool worker has taken yet
    w_busy,         \* pool workers executing an invocation of the batch
    w_ran,          \* pool worker -> invocations of the batch it has taken
    w_failed,       \* an invocation of the batch raised
    elapsed,        \* ticks since `start = time.perf_counter()`
    last_done,      \* elapsed when the latest invocation of the batch ended
    ran_by,         \* pool.map of a workload: task -> the workers that ran it
    budget,         \* run_contention's iterations / run_producer_consumer's items
    wl_pc,          \* position of the caller inside that workload
    wl_ret,         \* the value it returned
    p_pc,           \* started process -> position in its worker function
    p_left,         \* started process -> loop iterations it has left
    p_tmp,          \* started process -> value read for `+= 1`
    lock,           \* manager.Lock(): 0 when free, else the holder
    shared_val,     \* manager.Value('i', 0)
    queue,          \* manager.Queue()
    got,            \* consumer -> the items queue.get() gave it
    produced,       \* the items put on the queue, in order
    idle_stop,      \* a stop() made between two runs: none, pending, carried
    log_calls,      \* calls of self.log in this run
    progress_calls  \* calls of self.update_progress in this run

engine_vars == <<running, num_cores, num_processes>>
suite_vars  == <<pc, args, i, j, sc_scores, mc_scores, ex_scores, ret,
                 mc_pool, mc_pool_size, mc_pools_made, ex_pools, ex_mgr,
                 ex_procs, ex_leaked, uncaught, stopLog, invLog, raised>>
score_vars  == <<score_arg, score_res>>
vars == <<running, num_cores, num_processes, pc, args, i, j, sc_scores,
          mc_scores, ex_scores, ret, mc_pool, mc_pool_size, mc_pools_made,
          ex_pools, ex_mgr, ex_procs, ex_leaked, uncaught, stopLog, invLog, raised,
          score_arg, score_res, work_items, mc_scale, task_q, w_busy, w_ran,
          w_failed, elapsed, last_done, ran_by, budget, wl_pc, wl_ret, p_pc, p_left,
          p_tmp, lock, shared_val, queue, got, produced, idle_stop,
          log_calls, progress_calls>>

mc_args    == <<work_items, mc_scale>>
batch_vars == <<task_q, w_busy, w_ran, w_failed, elapsed, last_done, ran_by>>
wl_vars    == <<budget, wl_pc, wl_ret, p_pc, p_left, p_tmp, lock, shared_val,
                queue, got, produced>>

----------------------------------------------------------------------------
(* Bounds *)

\* descriptors of sc_workloads that are run (a prefix of the list of twelve)
NumSc == 2
\* largest logical core count of the host
MaxCores == 2
\* measured wall-clock durations, in ticks
Durations == {7}
\* arguments tried on calculate_score
MaxBaseline == 6
MaxActual == 4
MaxScale == 3
\* most tasks given to run_work_stealing_sim
MaxTasks == 5
\* longest measured batch, in ticks
MaxElapsed == 2
\* largest num_processes given to MCWorkloads, and largest iterations / items
MaxProcs == 4
MaxBudget == 4

----------------------------------------------------------------------------
(* Task lists of run_suite *)

sc_workloads ==
    << [name |-> "Integer ALU", baseline |-> 5],
       [name |-> "Branching",   baseline |-> 8],
       [name |-> "String Proc", baseline |-> 15],
       [name |-> "Hashing",     baseline |-> 12],
       [name |-> "Encryption",  baseline |-> 20],
       [name |-> "Compression", baseline |-> 18],
       [name |-> "Matrix Math", baseline |-> 10],
       [name |-> "FFT",         baseline |-> 25],
       [name |-> "Physics",     baseline |-> 30],
       [name |-> "Ray Tracing", baseline |-> 15],
       [name |-> "Image Blur",  baseline |-> 40],
       [name |-> "Compiler",    baseline |-> 15] >>

\* kind: how the workload runs its processes: "map" is `with Pool: pool.map`,
\* "contention" and "prodcons" start and join their processes by hand.
extra_workloads ==
    << [name |-> "Hash Farm",     kind |-> "map",        baseline |-> 20],
       [name |-> "Compression",   kind |-> "map",        baseline |-> 20],
       [name |-> "Monte Carlo",   kind |-> "map",        baseline |-> 15],
       [name |-> "Image Tile",    kind |-> "map",        baseline |-> 30],
       [name |-> "Ray Batch",     kind |-> "map",        baseline |-> 15],
       [name |-> "Mem Stream",    kind |-> "map",        baseline |-> 50],
       [name |-> "Pointer Chase", kind |-> "map",        baseline |-> 40],
       [name |-> "Contention",    kind |-> "contention", baseline |-> 50],
       [name |-> "Prod/Cons",     kind |-> "prodcons",   baseline |-> 60],
       [name |-> "Work Steal",    kind |-> "map",        baseline |-> 20] >>

\* The extra descriptors that are run, in list order: one pool workload and
\* the two that spawn their own processes.
ExSel == <<1, 8, 9>>
NumEx == Len(ExSel)

ScTask(k) == sc_workloads[k]
\* the list given to the throughput runner:
\* self._run_multi_core_pass(sc_workloads)
McTask(k) == sc_workloads[k]
ExTask(k) == extra_workloads[ExSel[k]]

----------------------------------------------------------------------------
(* Arithmetic *)

Max(a, b) == IF a >= b THEN a ELSE b

\* Python's int() of the quotient n / d, d > 0: truncation towards zero
IntTrunc(n, d) == IF n >= 0 THEN n \div d ELSE -((-n) \div d)

\* floor of the quotient n / d, d > 0
Floor(n, d) == IF n >= 0 THEN n \div d
               ELSE IF (-n) % d = 0 THEN -((-n) \div d) ELSE -((-n) \div d) - 1

calculate_score_unscaled(baseline_time, actual_time, scale_factor) ==
    IF actual_time <= 0 THEN 0
    ELSE IntTrunc(baseline_time * 1000, actual_time)

calculate_score(baseline_time, actual_time, scale_factor) ==
    IF actual_time <= 0 THEN 0
    ELSE IntTrunc(baseline_time * 1000 * scale_factor, actual_time)

scale_factor_default_cores == num_cores

\* `scale_factor=1.0`, the default the sequential and the extra runner use
scale_factor_default == 1

RECURSIVE SumOver(_, _)
SumOver(m, S) ==
    IF S = {} THEN 0
    ELSE LET k == CHOOSE x \in S : TRUE IN m[k] + SumOver(m, S \ {k})

avg_rounding_up(m) ==
    IF DOMAIN m = {} THEN 0
    ELSE IntTrunc(SumOver(m, DOMAIN m) + Cardinality(DOMAIN m) - 1,
                  Cardinality(DOMAIN m))

\* avg over the values of a score map
avg(m) == IF DOMAIN m = {} THEN 0
          ELSE IntTrunc(SumOver(m, DOMAIN m), Cardinality(DOMAIN m))

\* results[name] = score
Put(m, k, v) == (k :> v) @@ m

----------------------------------------------------------------------------
(* Conditions and small steps of the runners *)

PhaseEnabled_any(flag, run) == run

\* `if run_sc and self.running:` and its two siblings
PhaseEnabled(flag, run) == flag /\ run

KeepGoing_ignoring_stop(run) == TRUE

\* `if not self.running: break` read positively
KeepGoing(run) == run

\* `if not self.running: return None`
Cancelled(run) == ~run

OnError_zero(results, k) == Put(results, k, 0)

\* `except Exception as e: self.log(...); continue` leaves the map alone
OnError(results, k) == results

NextTask_skipping(k) == k + 2

\* the for loop's advance to the following descriptor
NextTask(k) == k + 1

PoolExit_leaking(n) == n

\* Pool.__exit__ at the end of the `with` block terminates the pool
PoolExit(n) == n - 1

\* producers and consumers of run_producer_consumer
n_prod == Max(1, num_processes \div 2)
n_cons_unfloored == num_processes - n_prod

n_cons == Max(1, num_processes - n_prod)

\* processes a hand-spawning workload starts
NumProcs(kind) == IF kind = "contention" THEN num_processes
                  ELSE n_prod + n_cons

----------------------------------------------------------------------------
(* Positions of the run_suite thread *)

InScCall == {"sc_call"}
InMcCall == {"mc_call", "mc_batch"}
InExCall == {"ex_call", "ex_map", "ex_spawn", "ex_join"}
InFlight == InScCall \cup InMcCall \cup InExCall
InWith   == {"mc_loop", "mc_call", "mc_batch"}

\* where a stop() finds the run_suite thread
StopLabel ==
    CASE pc = "called"   -> <<"early", 0>>
      [] pc \in InScCall -> <<"sc", i>>
      [] pc \in InMcCall -> <<"mc", i>>
      [] pc \in InExCall -> <<"ex", i>>
      [] pc = "agg"      -> <<"late", 0>>
      [] OTHER           -> <<"boundary", 0>>

Flags == [run_sc : BOOLEAN, run_mc : BOOLEAN, run_extra : BOOLEAN]

NoScores == <<>>

----------------------------------------------------------------------------
(* Construction *)

\* no batch has been dispatched
InitBatch ==
    /\ task_q = 0
    /\ w_busy = {}
    /\ w_ran = <<>>
    /\ w_failed = FALSE
    /\ elapsed = 0
    /\ last_done = 0
    /\ ran_by = <<>>

\* no self-parallel workload has been called
InitWorkload ==
    /\ budget = 0
    /\ wl_pc = "idle"
    /\ wl_ret = <<>>
    /\ p_pc = <<>>
    /\ p_left = <<>>
    /\ p_tmp = <<>>
    /\ lock = 0
    /\ shared_val = 0
    /\ queue = <<>>
    /\ got = <<>>
    /\ produced = <<>>

\* BenchmarkEngine.__init__ and MCWorkloads.__init__ on a host of c cores
InitEngineOn(c) ==
    /\ running = FALSE
    /\ num_cores = c
    /\ num_processes = c
    /\ pc = "idle"
    /\ args = [run_sc |-> TRUE, run_mc |-> TRUE, run_extra |-> TRUE]
    /\ i = 0
    /\ j = 0
    /\ sc_scores = NoScores
    /\ mc_scores = NoScores
    /\ ex_scores = NoScores
    /\ ret = [kind |-> "pending"]
    /\ mc_pool = 0
    /\ mc_pool_size = 0
    /\ mc_pools_made = 0
    /\ ex_pools = 0
    /\ ex_mgr = 0
    /\ ex_procs = 0
    /\ ex_leaked = {}
    /\ uncaught = "none"
    /\ stopLog = {}
    /\ invLog = <<>>
    /\ raised = {}
    /\ work_items = <<>>
    /\ mc_scale = 0
    /\ InitBatch
    /\ InitWorkload
    /\ idle_stop = "none"
    /\ log_calls = 0
    /\ progress_calls = 0

InitEngine == \E c \in 1..MaxCores : InitEngineOn(c)

Init ==
    /\ InitEngine
    /\ score_arg = [baseline_time |-> 0, actual_time |-> 0, scale_factor |-> 1]
    /\ score_res = <<>>

----------------------------------------------------------------------------
(* stop() and the call of run_suite *)

Log_silent(n, k) == n

\* BenchmarkEngine.log called k times: n is the count so far
Log(n, k) == n + k

stop_resetting ==
    /\ running' = FALSE
    /\ stopLog' = IF pc \in {"idle", "done"} THEN stopLog
                  ELSE stopLog \cup {StopLabel}
    /\ sc_scores' = NoScores
    /\ UNCHANGED <<num_cores, num_processes, pc, args, i, j,
                   mc_scores, ex_scores, ret, mc_pool, mc_pool_size,
                   mc_pools_made, ex_pools, ex_mgr, ex_procs, ex_leaked, uncaught,
                   invLog, raised, score_arg, score_res>>
    /\ UNCHANGED <<batch_vars, wl_vars>>
    /\ UNCHANGED mc_args
    /\ UNCHANGED <<idle_stop, log_calls, progress_calls>>

\* BenchmarkEngine.stop, from any thread at any time
stop ==
    /\ running' = FALSE
    /\ stopLog' = IF pc \in {"idle", "done"} THEN stopLog
                  ELSE stopLog \cup {StopLabel}
    /\ UNCHANGED <<num_cores, num_processes, pc, args, i, j, sc_scores,
                   mc_scores, ex_scores, ret, mc_pool, mc_pool_size,
                   mc_pools_made, ex_pools, ex_mgr, ex_procs, ex_leaked, uncaught,
                   invLog, raised, score_arg, score_res>>
    /\ UNCHANGED <<batch_vars, wl_vars>>
    /\ UNCHANGED mc_args
    /\ UNCHANGED <<idle_stop, log_calls, progress_calls>>

\* The worker thread is started on run_suite (main.py _worker); nothing of
\* run_suite has executed yet.  The bookkeeping of the previous run is dropped.
Call ==
    /\ pc \in {"idle", "done"}
    /\ \E a \in Flags : args' = a
    /\ pc' = "called"
    /\ i' = 0
    /\ j' = 0
    /\ sc_scores' = NoScores
    /\ mc_scores' = NoScores
    /\ ex_scores' = NoScores
    /\ ret' = [kind |-> "pending"]
    /\ mc_pools_made' = 0
    /\ mc_pool_size' = 0
    /\ uncaught' = "none"
    /\ stopLog' = {}
    /\ invLog' = <<>>
    /\ raised' = {}
    /\ work_items' = <<>>
    /\ mc_scale' = 0
    /\ UNCHANGED <<running, num_cores, num_processes, mc_pool,
                   ex_pools, ex_mgr, ex_procs, ex_leaked, score_arg, score_res>>
    /\ UNCHANGED <<batch_vars, wl_vars>>
    /\ idle_stop' = IF idle_stop = "pending" THEN "carried" ELSE "none"
    /\ log_calls' = 0
    /\ progress_calls' = 0

\* BenchmarkEngine.stop while no run_suite call is executing
StopIdle ==
    /\ pc \in {"idle", "done"}
    /\ running' = FALSE
    /\ idle_stop' = "pending"
    /\ UNCHANGED <<num_cores, num_processes, pc, args, i, j, sc_scores,
                   mc_scores, ex_scores, ret, mc_pool, mc_pool_size,
                   mc_pools_made, ex_pools, ex_mgr, ex_procs, ex_leaked, uncaught,
                   stopLog, invLog, raised, score_arg, score_res>>
    /\ UNCHANGED <<batch_vars, wl_vars, mc_args, log_calls, progress_calls>>

Enter_keeping ==
    /\ pc = "called"
    /\ running' = running
    /\ pc' = "sc_gate"
    /\ UNCHANGED <<num_cores, num_processes, args, i, j, sc_scores,
                   mc_scores, ex_scores, ret, mc_pool, mc_pool_size,
                   mc_pools_made, ex_pools, ex_mgr, ex_procs, ex_leaked, uncaught,
                   stopLog, invLog, raised, score_arg, score_res>>
    /\ UNCHANGED <<batch_vars, wl_vars>>
    /\ UNCHANGED mc_args
    /\ UNCHANGED <<idle_stop, log_calls, progress_calls>>

\* run_suite, first statement: self.running = True
Enter ==
    /\ pc = "called"
    /\ running' = TRUE
    /\ pc' = "sc_gate"
    /\ UNCHANGED <<num_cores, num_processes, args, i, j, sc_scores,
                   mc_scores, ex_scores, ret, mc_pool, mc_pool_size,
                   mc_pools_made, ex_pools, ex_mgr, ex_procs, ex_leaked, uncaught,
                   stopLog, invLog, raised, score_arg, score_res>>
    /\ UNCHANGED <<batch_vars, wl_vars>>
    /\ UNCHANGED mc_args
    /\ UNCHANGED <<idle_stop, log_calls, progress_calls>>

----------------------------------------------------------------------------
(* Phase 1: _run_single_core_pass *)

res_vars == <<mc_pool, mc_pool_size, mc_pools_made, ex_pools, ex_mgr, ex_procs,
              ex_leaked>>
fixed_vars == <<running, num_cores, num_processes, args, score_arg,
                score_res, batch_vars, wl_vars>>

\* `if run_sc and self.running:`
ScGate ==
    /\ pc = "sc_gate"
    /\ IF PhaseEnabled(args.run_sc, running)
       THEN pc' = "sc_loop" /\ i' = 1
       ELSE pc' = "mc_gate" /\ i' = i
    /\ UNCHANGED <<fixed_vars, res_vars, j, sc_scores, mc_scores, ex_scores,
                   ret, uncaught, stopLog, invLog, raised>>
    /\ UNCHANGED mc_args
    /\ log_calls' = IF PhaseEnabled(args.run_sc, running) THEN Log(log_calls, 1) ELSE log_calls
    /\ UNCHANGED <<idle_stop, progress_calls>>

\* loop head: next descriptor, `if not self.running: break`, then the call
ScLoop ==
    /\ pc = "sc_loop"
    /\ IF i <= NumSc /\ KeepGoing(running)
       THEN /\ pc' = "sc_call"
            /\ invLog' = Append(invLog, <<"start", "sc", i>>)
       ELSE /\ pc' = "mc_gate"
            /\ invLog' = invLog
    /\ UNCHANGED <<fixed_vars, res_vars, i, j, sc_scores, mc_scores,
                   ex_scores, ret, uncaught, stopLog, raised>>
    /\ UNCHANGED mc_args
    /\ log_calls' = IF i <= NumSc /\ KeepGoing(running) THEN Log(log_calls, 1) ELSE log_calls
    /\ UNCHANGED <<idle_stop, progress_calls>>

\* func(*args) returned after d ticks: results[name] = score
ScCallOk ==
    /\ pc = "sc_call"
    /\ \E d \in Durations :
          sc_scores' = Put(sc_scores, i,
                           calculate_score(ScTask(i).baseline, d,
                                           scale_factor_default))
    /\ invLog' = Append(invLog, <<"end", "sc", i>>)
    /\ i' = NextTask(i)
    /\ pc' = "sc_loop"
    /\ UNCHANGED <<fixed_vars, res_vars, j, mc_scores, ex_scores, ret,
                   uncaught, stopLog, raised>>
    /\ UNCHANGED mc_args
    /\ log_calls' = Log(log_calls, 1)
    /\ UNCHANGED <<idle_stop, progress_calls>>

\* func(*args) raised: log and continue
ScCallRaise ==
    /\ pc = "sc_call"
    /\ sc_scores' = OnError(sc_scores, i)
    /\ raised' = raised \cup {<<"sc", i>>}
    /\ invLog' = Append(invLog, <<"end", "sc", i>>)
    /\ i' = NextTask(i)
    /\ pc' = "sc_loop"
    /\ UNCHANGED <<fixed_vars, res_vars, j, mc_scores, ex_scores, ret,
                   uncaught, stopLog>>
    /\ UNCHANGED mc_args
    /\ log_calls' = Log(log_calls, 1)
    /\ UNCHANGED <<idle_stop, progress_calls>>

----------------------------------------------------------------------------
(* Phase 2: _run_multi_core_pass *)

\* `if run_mc and self.running:`
McGate ==
    /\ pc = "mc_gate"
    /\ pc' = IF PhaseEnabled(args.run_mc, running) THEN "mc_pool" ELSE "ex_gate"
    /\ UNCHANGED <<fixed_vars, res_vars, i, j, sc_scores, mc_scores,
                   ex_scores, ret, uncaught, stopLog, invLog, raised>>
    /\ UNCHANGED mc_args
    /\ log_calls' = IF PhaseEnabled(args.run_mc, running) THEN Log(log_calls, 1) ELSE log_calls
    /\ UNCHANGED <<idle_stop, progress_calls>>

\* `with multiprocessing.Pool(self.num_cores) as pool:` succeeds
McPoolCreate ==
    /\ pc = "mc_pool"
    /\ mc_pool' = mc_pool + 1
    /\ mc_pool_size' = num_cores
    /\ mc_pools_made' = mc_pools_made + 1
    /\ i' = 1
    /\ pc' = "mc_loop"
    /\ UNCHANGED <<fixed_vars, ex_pools, ex_mgr, ex_procs, ex_leaked, j, sc_scores,
                   mc_scores, ex_scores, ret, uncaught, stopLog, invLog,
                   raised>>
    /\ UNCHANGED mc_args
    /\ UNCHANGED <<idle_stop, log_calls, progress_calls>>

\* multiprocessing.Pool raises: nothing catches it, neither in
\* _run_multi_core_pass nor in run_suite
McPoolFail ==
    /\ pc = "mc_pool"
    /\ uncaught' = "pool"
    /\ ret' = [kind |-> "exception"]
    /\ pc' = "done"
    /\ UNCHANGED <<fixed_vars, res_vars, i, j, sc_scores, mc_scores,
                   ex_scores, stopLog, invLog, raised>>
    /\ UNCHANGED mc_args
    /\ UNCHANGED <<idle_stop, log_calls, progress_calls>>

\* loop head inside the with block; leaving the loop leaves the with block
McLoop ==
    /\ pc = "mc_loop"
    /\ IF i <= NumSc /\ KeepGoing(running)
       THEN /\ pc' = "mc_call"
            /\ invLog' = Append(invLog, <<"start", "mc", i>>)
            /\ mc_pool' = mc_pool
       ELSE /\ pc' = "ex_gate"
            /\ invLog' = invLog
            /\ mc_pool' = PoolExit(mc_pool)
    /\ UNCHANGED <<fixed_vars, mc_pool_size, mc_pools_made, ex_pools, ex_mgr,
                   ex_procs, ex_leaked, i, j, sc_scores, mc_scores, ex_scores, ret,
                   uncaught, stopLog, raised>>
    /\ UNCHANGED mc_args
    /\ log_calls' = IF i <= NumSc /\ KeepGoing(running) THEN Log(log_calls, 1) ELSE log_calls
    /\ UNCHANGED <<idle_stop, progress_calls>>

WorkItems_one_short(n) == [k \in 1..(n - 1) |-> <<>>]

\* `work_items = [()] * self.num_cores` (every descriptor's args is [])
WorkItems(n) == [k \in 1..n |-> <<>>]

\* pool.starmap(func, work_items) returned after d ticks
McCallOk ==
    /\ pc = "mc_call"
    /\ work_items' = WorkItems(num_cores)
    /\ mc_scale' = num_cores
    /\ \E d \in Durations :
          mc_scores' = Put(mc_scores, i,
                           calculate_score(McTask(i).baseline, d, mc_scale'))
    /\ invLog' = Append(invLog, <<"end", "mc", i>>)
    /\ i' = NextTask(i)
    /\ pc' = "mc_loop"
    /\ UNCHANGED <<fixed_vars, res_vars, j, sc_scores, ex_scores, ret,
                   uncaught, stopLog, raised>>
    /\ log_calls' = Log(log_calls, 1)
    /\ UNCHANGED <<idle_stop, progress_calls>>

\* one of the worker invocations raised: starmap re-raises it in the parent
McCallRaise ==
    /\ pc = "mc_call"
    /\ work_items' = WorkItems(num_cores)
    /\ mc_scale' = mc_scale
    /\ mc_scores' = OnError(mc_scores, i)
    /\ raised' = raised \cup {<<"mc", i>>}
    /\ invLog' = Append(invLog, <<"end", "mc", i>>)
    /\ i' = NextTask(i)
    /\ pc' = "mc_loop"
    /\ UNCHANGED <<fixed_vars, res_vars, j, sc_scores, ex_scores, ret,
                   uncaught, stopLog>>
    /\ log_calls' = Log(log_calls, 1)
    /\ UNCHANGED <<idle_stop, progress_calls>>

----------------------------------------------------------------------------
(* Phase 2 with pool.starmap step by step: the pool's workers take the work
   items from the pool's task queue, each as soon as it is free *)

mc_keep == <<running, num_cores, num_processes, args, score_arg, score_res,
             wl_vars, res_vars, j, sc_scores, ex_scores, ret, uncaught,
             stopLog>>

\* `start = time.perf_counter()`, work_items is built and pool.starmap puts
\* one task per item (chunksize 1) on the pool's task queue
McDispatch ==
    /\ pc = "mc_call"
    /\ work_items' = WorkItems(num_cores)
    /\ task_q' = Len(work_items')
    /\ w_busy' = {}
    /\ w_ran' = [w \in 1..mc_pool_size |-> 0]
    /\ w_failed' = FALSE
    /\ elapsed' = 0
    /\ last_done' = 0
    /\ pc' = "mc_batch"
    /\ UNCHANGED <<mc_keep, mc_scale, mc_scores, i, invLog, raised>>
    /\ UNCHANGED ran_by
    /\ UNCHANGED <<idle_stop, log_calls, progress_calls>>

\* a free pool worker takes the next task and calls func(*item)
WorkerTake ==
    /\ pc = "mc_batch"
    /\ task_q > 0
    /\ \E w \in (DOMAIN w_ran) \ w_busy :
          /\ w_busy' = w_busy \cup {w}
          /\ w_ran' = [w_ran EXCEPT ![w] = @ + 1]
    /\ task_q' = task_q - 1
    /\ UNCHANGED <<mc_keep, mc_args, mc_scores, i, invLog, raised, pc,
                   w_failed, elapsed, last_done>>
    /\ UNCHANGED ran_by
    /\ UNCHANGED <<idle_stop, log_calls, progress_calls>>

\* a worker's invocation returns
WorkerFinish ==
    /\ pc = "mc_batch"
    /\ \E w \in w_busy : w_busy' = w_busy \ {w}
    /\ last_done' = elapsed
    /\ UNCHANGED <<mc_keep, mc_args, mc_scores, i, invLog, raised, pc,
                   task_q, w_ran, w_failed, elapsed>>
    /\ UNCHANGED ran_by
    /\ UNCHANGED <<idle_stop, log_calls, progress_calls>>

\* a worker's invocation raises; the worker stays in the pool
WorkerRaise ==
    /\ pc = "mc_batch"
    /\ \E w \in w_busy : w_busy' = w_busy \ {w}
    /\ w_failed' = TRUE
    /\ last_done' = elapsed
    /\ UNCHANGED <<mc_keep, mc_args, mc_scores, i, invLog, raised, pc,
                   task_q, w_ran, elapsed>>
    /\ UNCHANGED ran_by
    /\ UNCHANGED <<idle_stop, log_calls, progress_calls>>

\* the clock advances while the caller waits in pool.starmap
Tick ==
    /\ pc = "mc_batch"
    /\ elapsed < MaxElapsed
    /\ elapsed' = elapsed + 1
    /\ UNCHANGED <<mc_keep, mc_args, mc_scores, i, invLog, raised, pc,
                   task_q, w_busy, w_ran, w_failed, last_done>>
    /\ UNCHANGED ran_by
    /\ UNCHANGED <<idle_stop, log_calls, progress_calls>>

\* every invocation has ended and none raised: starmap returns,
\* duration = time.perf_counter() - start, results[name] = score
StarmapReturn ==
    /\ pc = "mc_batch"
    /\ task_q = 0 /\ w_busy = {} /\ ~w_failed
    /\ mc_scale' = num_cores
    /\ mc_scores' = Put(mc_scores, i,
                        calculate_score(McTask(i).baseline, elapsed, mc_scale'))
    /\ invLog' = Append(invLog, <<"end", "mc", i>>)
    /\ i' = NextTask(i)
    /\ pc' = "mc_loop"
    /\ UNCHANGED <<mc_keep, batch_vars, work_items, raised>>
    /\ log_calls' = Log(log_calls, 1)
    /\ UNCHANGED <<idle_stop, progress_calls>>

\* every invocation has ended and one raised: starmap re-raises it
StarmapRaise ==
    /\ pc = "mc_batch"
    /\ task_q = 0 /\ w_busy = {} /\ w_failed
    /\ mc_scores' = OnError(mc_scores, i)
    /\ raised' = raised \cup {<<"mc", i>>}
    /\ invLog' = Append(invLog, <<"end", "mc", i>>)
    /\ i' = NextTask(i)
    /\ pc' = "mc_loop"
    /\ UNCHANGED <<mc_keep, batch_vars, mc_args>>
    /\ log_calls' = Log(log_calls, 1)
    /\ UNCHANGED <<idle_stop, progress_calls>>

\* the worker thread is started on run_suite(False, True, False)
CallThroughput ==
    /\ Call
    /\ args' = [run_sc |-> FALSE, run_mc |-> TRUE, run_extra |-> FALSE]

----------------------------------------------------------------------------
(* Phase 3: _run_extra_pass and the workloads of MCWorkloads *)

ex_keep == <<sc_scores, mc_scores, ret, uncaught, stopLog, mc_pool,
             mc_pool_size, mc_pools_made>>

\* `if run_extra and self.running:`
ExGate ==
    /\ pc = "ex_gate"
    /\ IF PhaseEnabled(args.run_extra, running)
       THEN pc' = "ex_loop" /\ i' = 1
       ELSE pc' = "final" /\ i' = i
    /\ UNCHANGED <<fixed_vars, ex_keep, ex_pools, ex_mgr, ex_procs, ex_leaked, j,
                   ex_scores, invLog, raised>>
    /\ UNCHANGED mc_args
    /\ log_calls' = IF PhaseEnabled(args.run_extra, running) THEN Log(log_calls, 1) ELSE log_calls
    /\ UNCHANGED <<idle_stop, progress_calls>>

\* loop head: `if not self.running: break`, then func(*args) is entered
ExLoop ==
    /\ pc = "ex_loop"
    /\ IF i <= NumEx /\ KeepGoing(running)
       THEN /\ pc' = "ex_call"
            /\ invLog' = Append(invLog, <<"start", "ex", i>>)
       ELSE /\ pc' = "final"
            /\ invLog' = invLog
    /\ UNCHANGED <<fixed_vars, ex_keep, ex_pools, ex_mgr, ex_procs, ex_leaked, i, j,
                   ex_scores, raised>>
    /\ UNCHANGED mc_args
    /\ log_calls' = IF i <= NumEx /\ KeepGoing(running) THEN Log(log_calls, 1) ELSE log_calls
    /\ UNCHANGED <<idle_stop, progress_calls>>

\* run_parallel_hashing and the other pool workloads:
\* `with multiprocessing.Pool(self.num_processes) as pool:` succeeds or raises
ExMapEnter ==
    /\ pc = "ex_call"
    /\ ExTask(i).kind = "map"
    /\ \/ ex_pools' = ex_pools + 1 /\ pc' = "ex_map"
       \/ ex_pools' = ex_pools /\ pc' = "ex_err"
    /\ UNCHANGED <<fixed_vars, ex_keep, ex_mgr, ex_procs, ex_leaked, i, j, ex_scores,
                   invLog, raised>>
    /\ UNCHANGED mc_args
    /\ UNCHANGED <<idle_stop, log_calls, progress_calls>>

\* pool.map returns or re-raises a worker's exception; either way the with
\* block is left and the pool terminated
ExMapLeave ==
    /\ pc = "ex_map"
    /\ ex_pools' = PoolExit(ex_pools)
    /\ pc' \in {"ex_ok", "ex_err"}
    /\ UNCHANGED <<fixed_vars, ex_keep, ex_mgr, ex_procs, ex_leaked, i, j, ex_scores,
                   invLog, raised>>
    /\ UNCHANGED mc_args
    /\ UNCHANGED <<idle_stop, log_calls, progress_calls>>

\* run_contention / run_producer_consumer: multiprocessing.Manager() starts
\* the manager process, or raises
ExManager ==
    /\ pc = "ex_call"
    /\ ExTask(i).kind \in {"contention", "prodcons"}
    /\ \/ ex_mgr' = ex_mgr + 1 /\ j' = 0 /\ pc' = "ex_spawn"
       \/ ex_mgr' = ex_mgr /\ j' = j /\ pc' = "ex_err"
    /\ UNCHANGED <<fixed_vars, ex_keep, ex_pools, ex_procs, ex_leaked, i, ex_scores,
                   invLog, raised>>
    /\ UNCHANGED mc_args
    /\ UNCHANGED <<idle_stop, log_calls, progress_calls>>

\* the spawn loops: p = Process(...); p.start() succeeds, or raises and the
\* exception leaves the workload at once: the processes started so far are
\* neither joined nor terminated, and while one of them runs the manager,
\* whose proxies it holds, stays up.  With none running the manager goes
\* with the frame of the call.
ExSpawn ==
    /\ pc = "ex_spawn"
    /\ IF j < NumProcs(ExTask(i).kind)
       THEN \/ /\ ex_procs' = ex_procs + 1
               /\ UNCHANGED <<ex_mgr, ex_leaked>>
               /\ j' = j + 1
               /\ pc' = "ex_spawn"
            \/ /\ ex_procs' = 0
               /\ ex_mgr' = 0
               /\ ex_leaked' = IF ex_procs > 0
                                THEN ex_leaked \cup {"process", "manager"}
                                ELSE ex_leaked
               /\ j' = j
               /\ pc' = "ex_err"
       ELSE /\ UNCHANGED <<ex_procs, ex_mgr, ex_leaked>>
            /\ j' = j
            /\ pc' = "ex_join"
    /\ UNCHANGED <<fixed_vars, ex_keep, ex_pools, i, ex_scores, invLog, raised>>
    /\ UNCHANGED mc_args
    /\ UNCHANGED <<idle_stop, log_calls, progress_calls>>

\* a process started by the workload being called runs to its end (by
\* returning or by an exception)
ProcExit ==
    /\ ex_procs > 0
    /\ ex_procs' = ex_procs - 1
    /\ UNCHANGED <<fixed_vars, ex_keep, ex_pools, ex_mgr, ex_leaked, pc, i, j,
                   ex_scores, invLog, raised>>
    /\ UNCHANGED mc_args
    /\ UNCHANGED <<idle_stop, log_calls, progress_calls>>

\* the last of the processes left behind runs to its end
OrphanExit ==
    /\ "process" \in ex_leaked
    /\ ex_leaked' = ex_leaked \ {"process"}
    /\ UNCHANGED <<fixed_vars, ex_keep, ex_pools, ex_mgr, ex_procs, pc, i, j,
                   ex_scores, invLog, raised>>
    /\ UNCHANGED mc_args
    /\ UNCHANGED <<idle_stop, log_calls, progress_calls>>

\* `for p in processes: p.join()` is over once every process of the call has
\* ended; then the return, where the last reference to the manager goes and
\* its finalizer shuts the manager process down
ExJoin ==
    /\ pc = "ex_join"
    /\ ex_procs = 0
    /\ ex_mgr' = ex_mgr - 1
    /\ pc' = "ex_ok"
    /\ UNCHANGED <<fixed_vars, ex_keep, ex_pools, ex_procs, ex_leaked, i, j,
                   ex_scores, invLog, raised>>
    /\ UNCHANGED mc_args
    /\ UNCHANGED <<idle_stop, log_calls, progress_calls>>

\* No statement of the source shuts a manager down: a manager left behind
\* with running processes goes when they are gone and the manager object is
\* collected.
ManagerFinalize ==
    /\ ex_leaked = {"manager"}
    /\ ex_leaked' = {}
    /\ UNCHANGED <<fixed_vars, ex_keep, ex_pools, ex_mgr, ex_procs, pc, i, j,
                   ex_scores, invLog, raised>>
    /\ UNCHANGED mc_args
    /\ UNCHANGED <<idle_stop, log_calls, progress_calls>>

\* back in _run_extra_pass after func returned: score with scale 1
ExScore ==
    /\ pc = "ex_ok"
    /\ \E d \in Durations :
          ex_scores' = Put(ex_scores, i,
                           calculate_score(ExTask(i).baseline, d,
                                           scale_factor_default))
    /\ invLog' = Append(invLog, <<"end", "ex", i>>)
    /\ i' = NextTask(i)
    /\ pc' = "ex_loop"
    /\ UNCHANGED <<fixed_vars, ex_keep, ex_pools, ex_mgr, ex_procs, ex_leaked, j,
                   raised>>
    /\ UNCHANGED mc_args
    /\ log_calls' = Log(log_calls, 1)
    /\ UNCHANGED <<idle_stop, progress_calls>>

\* back in _run_extra_pass after func raised: log and continue
ExExcept ==
    /\ pc = "ex_err"
    /\ ex_scores' = OnError(ex_scores, i)
    /\ raised' = raised \cup {<<"ex", i>>}
    /\ invLog' = Append(invLog, <<"end", "ex", i>>)
    /\ i' = NextTask(i)
    /\ pc' = "ex_loop"
    /\ UNCHANGED <<fixed_vars, ex_keep, ex_pools, ex_mgr, ex_procs, ex_leaked, j>>
    /\ UNCHANGED mc_args
    /\ log_calls' = Log(log_calls, 1)
    /\ UNCHANGED <<idle_stop, progress_calls>>

----------------------------------------------------------------------------
(* run_contention and run_producer_consumer process by process.  A started
   process is known by its position in the list `processes` / `procs`. *)

wl_keep == <<running, num_cores, num_processes, pc, args, i, j, sc_scores,
             mc_scores, ex_scores, ret, mc_pool, mc_pool_size, mc_pools_made,
             ex_pools, ex_mgr, ex_procs, ex_leaked, uncaught, stopLog, invLog,
             raised, score_arg, score_res, mc_args, batch_vars>>

\* chunk_iters = max(1, iterations // self.num_processes)
chunk_iters(iterations) == Max(1, iterations \div num_processes)

items_per_prod(items) == items \div n_prod
total_items_requested(items) == items

total_items(items) == items_per_prod(items) * n_prod

items_per_cons_whole(items) == total_items(items)

\* items_per_cons = total_items // n_cons
items_per_cons(items) == total_items(items) \div n_cons

QueueGet_peek(q) == q

\* what queue.get() leaves on the queue
QueueGet(q) == Tail(q)

LockFree_always(l) == TRUE

\* lock.acquire() goes through only while nobody holds the lock
LockFree(l) == l = 0

Done == \A k \in DOMAIN p_pc : p_pc[k] = "done"

\* p = Process(target, args); processes.append(p); p.start()
StartProcess(pos, count) ==
    /\ p_pc' = Append(p_pc, pos)
    /\ p_left' = Append(p_left, count)
    /\ p_tmp' = Append(p_tmp, 0)
    /\ got' = Append(got, <<>>)

\* MCWorkloads(n).run_contention(b): the manager, the lock and the value
ContentionCall ==
    /\ wl_pc = "idle"
    /\ \E b \in 0..MaxBudget : budget' = b
    /\ lock' = 0
    /\ shared_val' = 0
    /\ wl_pc' = "c_spawn"
    /\ UNCHANGED <<wl_keep, wl_ret, p_pc, p_left, p_tmp, queue, got, produced>>
    /\ UNCHANGED <<idle_stop, log_calls, progress_calls>>

\* the spawn loop of run_contention; after it the join loop
ContentionSpawn ==
    /\ wl_pc = "c_spawn"
    /\ IF Len(p_pc) < num_processes
       THEN StartProcess("loop", chunk_iters(budget)) /\ wl_pc' = wl_pc
       ELSE UNCHANGED <<p_pc, p_left, p_tmp, got>> /\ wl_pc' = "join"
    /\ UNCHANGED <<wl_keep, budget, wl_ret, lock, shared_val, queue, produced>>
    /\ UNCHANGED <<idle_stop, log_calls, progress_calls>>

\* p.start() raises: the exception leaves the workload
SpawnFail ==
    /\ \/ wl_pc = "c_spawn" /\ Len(p_pc) < num_processes
       \/ wl_pc = "pc_spawn" /\ Len(p_pc) < n_prod + n_cons
    /\ wl_pc' = "raised"
    /\ UNCHANGED <<wl_keep, budget, wl_ret, p_pc, p_left, p_tmp, lock,
                   shared_val, queue, got, produced>>
    /\ UNCHANGED <<idle_stop, log_calls, progress_calls>>

\* _worker_contention: `with lock:` acquires the lock
Acquire ==
    \E k \in DOMAIN p_pc :
        /\ p_pc[k] = "loop" /\ p_left[k] > 0
        /\ LockFree(lock)
        /\ lock' = k
        /\ p_pc' = [p_pc EXCEPT ![k] = "read"]
        /\ UNCHANGED <<wl_keep, budget, wl_pc, wl_ret, p_left, p_tmp,
                       shared_val, queue, got, produced>>
    /\ UNCHANGED <<idle_stop, log_calls, progress_calls>>

\* `shared_val.value += 1`, the read of the value through the proxy
ReadValue ==
    \E k \in DOMAIN p_pc :
        /\ p_pc[k] = "read"
        /\ p_tmp' = [p_tmp EXCEPT ![k] = shared_val]
        /\ p_pc' = [p_pc EXCEPT ![k] = "write"]
        /\ UNCHANGED <<wl_keep, budget, wl_pc, wl_ret, p_left, lock,
                       shared_val, queue, got, produced>>
    /\ UNCHANGED <<idle_stop, log_calls, progress_calls>>

\* and the write of the sum
WriteValue ==
    \E k \in DOMAIN p_pc :
        /\ p_pc[k] = "write"
        /\ shared_val' = p_tmp[k] + 1
        /\ p_pc' = [p_pc EXCEPT ![k] = "release"]
        /\ UNCHANGED <<wl_keep, budget, wl_pc, wl_ret, p_left, p_tmp, lock,
                       queue, got, produced>>
    /\ UNCHANGED <<idle_stop, log_calls, progress_calls>>

\* the end of the with block releases the lock; next iteration
Release ==
    \E k \in DOMAIN p_pc :
        /\ p_pc[k] = "release"
        /\ lock' = 0
        /\ p_left' = [p_left EXCEPT ![k] = @ - 1]
        /\ p_pc' = [p_pc EXCEPT ![k] = "loop"]
        /\ UNCHANGED <<wl_keep, budget, wl_pc, wl_ret, p_tmp, shared_val,
                       queue, got, produced>>
    /\ UNCHANGED <<idle_stop, log_calls, progress_calls>>

\* the worker's for loop is exhausted: the process ends
WorkerEnd ==
    \E k \in DOMAIN p_pc :
        /\ p_pc[k] \in {"loop", "put", "get"} /\ p_left[k] = 0
        /\ p_pc' = [p_pc EXCEPT ![k] = "done"]
        /\ UNCHANGED <<wl_keep, budget, wl_pc, wl_ret, p_left, p_tmp, lock,
                       shared_val, queue, got, produced>>
    /\ UNCHANGED <<idle_stop, log_calls, progress_calls>>

\* `for p in processes: p.join()` is through; return shared_val.value
ContentionReturn ==
    /\ wl_pc = "join" /\ Done
    /\ wl_ret' = <<shared_val>>
    /\ wl_pc' = "returned"
    /\ UNCHANGED <<wl_keep, budget, p_pc, p_left, p_tmp, lock, shared_val,
                   queue, got, produced>>
    /\ UNCHANGED <<idle_stop, log_calls, progress_calls>>

\* MCWorkloads(n).run_producer_consumer(b): the manager and the queue
ProdConsCall ==
    /\ wl_pc = "idle"
    /\ \E b \in 0..MaxBudget : budget' = b
    /\ queue' = <<>>
    /\ wl_pc' = "pc_spawn"
    /\ UNCHANGED <<wl_keep, wl_ret, p_pc, p_left, p_tmp, lock, shared_val,
                   got, produced>>
    /\ UNCHANGED <<idle_stop, log_calls, progress_calls>>

\* the two spawn loops of run_producer_consumer: the producers, then the
\* consumers; after them the join loop
ProdConsSpawn ==
    /\ wl_pc = "pc_spawn"
    /\ IF Len(p_pc) < n_prod
       THEN StartProcess("put", items_per_prod(budget)) /\ wl_pc' = wl_pc
       ELSE IF Len(p_pc) < n_prod + n_cons
       THEN StartProcess("get", items_per_cons(budget)) /\ wl_pc' = wl_pc
       ELSE UNCHANGED <<p_pc, p_left, p_tmp, got>> /\ wl_pc' = "join"
    /\ UNCHANGED <<wl_keep, budget, wl_ret, lock, shared_val, queue, produced>>
    /\ UNCHANGED <<idle_stop, log_calls, progress_calls>>

\* _worker_producer: queue.put(i); the queue has no maxsize, put never blocks.
\* The item is written <<producer, i>> to tell equal values apart.
ProducerPut ==
    \E k \in DOMAIN p_pc :
        /\ p_pc[k] = "put" /\ p_left[k] > 0
        /\ LET item == <<k, items_per_prod(budget) - p_left[k]>>
           IN  /\ queue' = Append(queue, item)
               /\ produced' = Append(produced, item)
        /\ p_left' = [p_left EXCEPT ![k] = @ - 1]
        /\ UNCHANGED <<wl_keep, budget, wl_pc, wl_ret, p_pc, p_tmp, lock,
                       shared_val, got>>
    /\ UNCHANGED <<idle_stop, log_calls, progress_calls>>

\* _worker_consumer: queue.get() blocks while the queue is empty
ConsumerGet ==
    \E k \in DOMAIN p_pc :
        /\ p_pc[k] = "get" /\ p_left[k] > 0
        /\ queue # <<>>
        /\ got' = [got EXCEPT ![k] = Append(@, Head(queue))]
        /\ queue' = QueueGet(queue)
        /\ p_left' = [p_left EXCEPT ![k] = @ - 1]
        /\ UNCHANGED <<wl_keep, budget, wl_pc, wl_ret, p_pc, p_tmp, lock,
                       shared_val, produced>>
    /\ UNCHANGED <<idle_stop, log_calls, progress_calls>>

\* `for p in procs: p.join()` is through; return total_items
ProdConsReturn ==
    /\ wl_pc = "join" /\ Done
    /\ wl_ret' = <<total_items(budget)>>
    /\ wl_pc' = "returned"
    /\ UNCHANGED <<wl_keep, budget, p_pc, p_left, p_tmp, lock, shared_val,
                   queue, got, produced>>
    /\ UNCHANGED <<idle_stop, log_calls, progress_calls>>

----------------------------------------------------------------------------
(* The pool workloads of MCWorkloads task by task: `with Pool(P) as pool:
   results = pool.map(worker, items)`.  pool.map cuts the items into chunks
   and every free worker of the pool takes the next chunk. *)

map_keep == <<running, num_cores, num_processes, pc, args, i, j, sc_scores,
              mc_scores, ex_scores, ret, mc_pool, mc_pool_size, mc_pools_made,
              ex_pools, ex_mgr, ex_procs, ex_leaked, uncaught, stopLog,
              invLog, raised, score_arg, score_res, mc_scale, w_failed,
              elapsed, last_done, p_pc, p_left, p_tmp, lock, shared_val,
              queue, got, produced>>

Min(a, b) == IF a <= b THEN a ELSE b

chunk_iters_unfloored(iterations) == iterations \div num_processes

\* the items a partitioned-map workload hands to pool.map:
\* [chunk_iters] * self.num_processes
PartitionedItems_unfloored(iterations) ==
    [k \in 1..num_processes |-> chunk_iters_unfloored(iterations)]

PartitionedItems(iterations) ==
    [k \in 1..num_processes |-> chunk_iters(iterations)]

\* tasks = [10] * iterations
StealTasks(iterations) == [k \in 1..iterations |-> 10]

\* pool.map's chunk size for n items on a pool of P workers:
\* divmod(n, 4 * P), rounded up; 0 for no items
MapChunk(n, P) ==
    IF n = 0 THEN 0
    ELSE (n \div (4 * P)) + (IF n % (4 * P) = 0 THEN 0 ELSE 1)

ChunkTasks_dropping_last(first, c) == first..(first + c - 2)

\* the tasks of the chunk of c tasks that begins with task `first`
ChunkTasks(first, c) == first..(first + c - 1)

\* run_parallel_hashing(b) and its four siblings are called
PartitionedCall ==
    /\ wl_pc = "idle"
    /\ \E b \in 0..MaxBudget : budget' = b
    /\ wl_pc' = "pool"
    /\ UNCHANGED <<map_keep, wl_ret, work_items, task_q, w_busy, w_ran, ran_by>>
    /\ UNCHANGED <<idle_stop, log_calls, progress_calls>>

\* run_work_stealing_sim(b) is called and builds its task list
WorkStealCall ==
    /\ wl_pc = "idle"
    /\ \E b \in 0..MaxTasks : budget' = b
    /\ work_items' = StealTasks(budget')
    /\ wl_pc' = "pool"
    /\ UNCHANGED <<map_keep, wl_ret, task_q, w_busy, w_ran, ran_by>>
    /\ UNCHANGED <<idle_stop, log_calls, progress_calls>>

\* `with multiprocessing.Pool(self.num_processes) as pool:`
PoolCreate ==
    /\ wl_pc = "pool"
    /\ w_ran' = [w \in 1..num_processes |-> 0]
    /\ w_busy' = {}
    /\ wl_pc' = "submit"
    /\ UNCHANGED <<map_keep, budget, wl_ret, work_items, task_q, ran_by>>
    /\ UNCHANGED <<idle_stop, log_calls, progress_calls>>

\* multiprocessing.Pool raises: the exception leaves the workload
PoolFail ==
    /\ wl_pc = "pool"
    /\ wl_pc' = "raised"
    /\ UNCHANGED <<map_keep, budget, wl_ret, work_items, task_q, w_busy,
                   w_ran, ran_by>>
    /\ UNCHANGED <<idle_stop, log_calls, progress_calls>>

\* chunk_iters = max(1, iterations // P); pool.map(worker, [chunk_iters] * P)
PartitionedSubmit ==
    /\ wl_pc = "submit"
    /\ work_items' = PartitionedItems(budget)
    /\ task_q' = Len(work_items')
    /\ ran_by' = [k \in 1..Len(work_items') |-> <<>>]
    /\ wl_pc' = "map"
    /\ UNCHANGED <<map_keep, budget, wl_ret, w_busy, w_ran>>
    /\ UNCHANGED <<idle_stop, log_calls, progress_calls>>

\* pool.map(_worker_monte_carlo, tasks)
WorkStealSubmit ==
    /\ wl_pc = "submit"
    /\ task_q' = Len(work_items)
    /\ ran_by' = [k \in 1..Len(work_items) |-> <<>>]
    /\ wl_pc' = "map"
    /\ UNCHANGED <<map_keep, budget, wl_ret, work_items, w_busy, w_ran>>
    /\ UNCHANGED <<idle_stop, log_calls, progress_calls>>

\* a free worker takes the next chunk and runs its tasks
PoolTake ==
    /\ wl_pc = "map"
    /\ task_q > 0
    /\ LET n     == Len(work_items)
           c     == Min(MapChunk(n, num_processes), task_q)
           chunk == ChunkTasks(n - task_q + 1, c)
       IN  /\ \E w \in (DOMAIN w_ran) \ w_busy :
                 /\ w_busy' = w_busy \cup {w}
                 /\ w_ran' = [w_ran EXCEPT ![w] = @ + 1]
                 /\ ran_by' = [k \in DOMAIN ran_by |->
                                 IF k \in chunk THEN Append(ran_by[k], w)
                                 ELSE ran_by[k]]
           /\ task_q' = task_q - c
    /\ UNCHANGED <<map_keep, budget, wl_pc, wl_ret, work_items>>
    /\ UNCHANGED <<idle_stop, log_calls, progress_calls>>

\* a worker has run the tasks of its chunk and hands the results back
PoolFinish ==
    /\ wl_pc = "map"
    /\ \E w \in w_busy : w_busy' = w_busy \ {w}
    /\ UNCHANGED <<map_keep, budget, wl_pc, wl_ret, work_items, task_q, w_ran,
                   ran_by>>
    /\ UNCHANGED <<idle_stop, log_calls, progress_calls>>

\* every chunk's results are in: pool.map returns, the with block ends and
\* the workload returns len(results)
MapReturn ==
    /\ wl_pc = "map"
    /\ task_q = 0 /\ w_busy = {}
    /\ wl_ret' = <<Len(work_items)>>
    /\ wl_pc' = "returned"
    /\ UNCHANGED <<map_keep, budget, work_items, task_q, w_busy, w_ran, ran_by>>
    /\ UNCHANGED <<idle_stop, log_calls, progress_calls>>

----------------------------------------------------------------------------
(* The end of run_suite *)

\* `if not self.running: return None`
Final ==
    /\ pc = "final"
    /\ IF Cancelled(running)
       THEN pc' = "done" /\ ret' = [kind |-> "None"]
       ELSE pc' = "agg" /\ ret' = ret
    /\ UNCHANGED <<fixed_vars, res_vars, i, j, sc_scores, mc_scores,
                   ex_scores, uncaught, stopLog, invLog, raised>>
    /\ UNCHANGED mc_args
    /\ UNCHANGED <<idle_stop, log_calls, progress_calls>>

\* aggregation and `return {...}`
Aggregate ==
    /\ pc = "agg"
    /\ ret' = [kind        |-> "dict",
               sc_score    |-> avg(sc_scores),
               mc_score    |-> avg(mc_scores),
               extra_score |-> avg(ex_scores),
               details_sc  |-> sc_scores,
               details_mc  |-> mc_scores,
               details_ex  |-> ex_scores]
    /\ pc' = "done"
    /\ UNCHANGED <<fixed_vars, res_vars, i, j, sc_scores, mc_scores,
                   ex_scores, uncaught, stopLog, invLog, raised>>
    /\ UNCHANGED mc_args
    /\ log_calls' = Log(log_calls, 5)
    /\ UNCHANGED <<idle_stop, progress_calls>>

\* the run_suite thread is about to call self.log
AboutToLog ==
    \/ pc = "sc_gate" /\ PhaseEnabled(args.run_sc, running)
    \/ pc = "mc_gate" /\ PhaseEnabled(args.run_mc, running)
    \/ pc = "ex_gate" /\ PhaseEnabled(args.run_extra, running)
    \/ pc \in {"sc_loop", "mc_loop"} /\ i <= NumSc /\ KeepGoing(running)
    \/ pc = "ex_loop" /\ i <= NumEx /\ KeepGoing(running)
    \/ pc \in {"sc_call", "mc_call", "ex_ok", "ex_err", "agg"}

\* log(): the log sink raises.  No log call is inside a try block whose
\* handler would take it, so it leaves run_suite, through the with block of
\* the throughput phase when it is raised there.
SinkRaise ==
    /\ AboutToLog
    /\ mc_pool' = IF pc \in InWith THEN PoolExit(mc_pool) ELSE mc_pool
    /\ uncaught' = "sink"
    /\ ret' = [kind |-> "exception"]
    /\ pc' = "done"
    /\ UNCHANGED <<fixed_vars, mc_pool_size, mc_pools_made, ex_pools, ex_mgr,
                   ex_procs, ex_leaked, i, j, sc_scores, mc_scores, ex_scores, stopLog,
                   invLog, raised>>
    /\ UNCHANGED mc_args
    /\ \E n \in 1..(IF pc = "agg" THEN 5 ELSE 1) :
          log_calls' = Log(log_calls, n)
    /\ UNCHANGED <<idle_stop, progress_calls>>

----------------------------------------------------------------------------
(* A direct call of calculate_score *)

ScoreArgs ==
    [baseline_time : -2..MaxBaseline, actual_time : -1..MaxActual,
     scale_factor : 1..MaxScale]

\* a fresh engine and the arguments of the call
InitScore ==
    /\ InitEngine
    /\ score_arg \in ScoreArgs
    /\ score_res = <<>>

\* score_res = engine.calculate_score(baseline_time, actual_time, scale_factor)
ScoreCall ==
    /\ score_res = <<>>
    /\ score_res' = << calculate_score(score_arg.baseline_time,
                                       score_arg.actual_time,
                                       score_arg.scale_factor) >>
    /\ UNCHANGED <<engine_vars, suite_vars, score_arg, mc_args, batch_vars,
                   wl_vars>>
    /\ UNCHANGED <<idle_stop, log_calls, progress_calls>>

\* after it, the same baseline and duration scored with scale_factor = 1:
\* score_res = [first, engine.calculate_score(baseline_time, actual_time, 1)]
ScoreCallUnit ==
    /\ Len(score_res) = 1
    /\ score_res' = Append(score_res,
                           calculate_score(score_arg.baseline_time,
                                           score_arg.actual_time, 1))
    /\ UNCHANGED <<engine_vars, suite_vars, score_arg, mc_args, batch_vars,
                   wl_vars>>
    /\ UNCHANGED <<idle_stop, log_calls, progress_calls>>

----------------------------------------------------------------------------
(* Specifications *)

Next ==
    \/ stop
    \/ Call
    \/ Enter
    \/ ScGate
    \/ ScLoop
    \/ ScCallOk
    \/ ScCallRaise
    \/ McGate
    \/ McPoolCreate
    \/ McPoolFail
    \/ McLoop
    \/ McCallOk
    \/ McCallRaise
    \/ ExGate
    \/ ExLoop
    \/ ExMapEnter
    \/ ExMapLeave
    \/ ExManager
    \/ ExSpawn
    \/ ProcExit
    \/ OrphanExit
    \/ ExJoin
    \/ ManagerFinalize
    \/ ExScore
    \/ ExExcept
    \/ Final
    \/ Aggregate
    \/ SinkRaise

Spec == Init /\ [][Next]_vars

NextScore == ScoreCall

SpecScore == InitScore /\ [][NextScore]_vars

NextMc ==
    \/ stop
    \/ CallThroughput
    \/ Enter
    \/ ScGate
    \/ McGate
    \/ McPoolCreate
    \/ McPoolFail
    \/ McLoop
    \/ McDispatch
    \/ WorkerTake
    \/ WorkerFinish
    \/ WorkerRaise
    \/ Tick
    \/ StarmapReturn
    \/ StarmapRaise
    \/ ExGate
    \/ Final
    \/ Aggregate
    \/ SinkRaise

SpecMc == Init /\ [][NextMc]_vars

\* MCWorkloads(num_processes=n) for any n
InitWorkloads ==
    /\ \E n \in 1..MaxProcs : InitEngineOn(n)
    /\ score_arg = [baseline_time |-> 0, actual_time |-> 0, scale_factor |-> 1]
    /\ score_res = <<>>

NextContention ==
    \/ ContentionCall
    \/ ContentionSpawn
    \/ SpawnFail
    \/ Acquire
    \/ ReadValue
    \/ WriteValue
    \/ Release
    \/ WorkerEnd
    \/ ContentionReturn

SpecContention == InitWorkloads /\ [][NextContention]_vars

NextProdCons ==
    \/ ProdConsCall
    \/ ProdConsSpawn
    \/ SpawnFail
    \/ ProducerPut
    \/ ConsumerGet
    \/ WorkerEnd
    \/ ProdConsReturn

SpecProdCons == InitWorkloads /\ [][NextProdCons]_vars

\* the operating system runs every process that can take a step
SpecProdConsFair == SpecProdCons /\ WF_vars(NextProdCons)

\* runs of run_suite that no stop() interrupts; stop() is called between them
NextRestart ==
    \/ StopIdle
    \/ Call
    \/ Enter
    \/ ScGate
    \/ ScLoop
    \/ ScCallOk
    \/ ScCallRaise
    \/ McGate
    \/ McPoolCreate
    \/ McPoolFail
    \/ McLoop
    \/ McCallOk
    \/ McCallRaise
    \/ ExGate
    \/ ExLoop
    \/ ExMapEnter
    \/ ExMapLeave
    \/ ExManager
    \/ ExSpawn
    \/ ProcExit
    \/ OrphanExit
    \/ ExJoin
    \/ ManagerFinalize
    \/ ExScore
    \/ ExExcept
    \/ Final
    \/ Aggregate
    \/ SinkRaise

SpecRestart == Init /\ [][NextRestart]_vars

NextPartitioned ==
    \/ PartitionedCall
    \/ PoolCreate
    \/ PoolFail
    \/ PartitionedSubmit
    \/ PoolTake
    \/ PoolFinish
    \/ MapReturn

SpecPartitioned == InitWorkloads /\ [][NextPartitioned]_vars

NextWorkSteal ==
    \/ WorkStealCall
    \/ PoolCreate
    \/ PoolFail
    \/ WorkStealSubmit
    \/ PoolTake
    \/ PoolFinish
    \/ MapReturn

SpecWorkSteal == InitWorkloads /\ [][NextWorkSteal]_vars

NextScale == ScoreCall \/ ScoreCallUnit

SpecScale == InitScore /\ [][NextScale]_vars

----------------------------------------------------------------------------
(* Vocabulary of the properties *)

Scores(p) == CASE p = "sc" -> sc_scores
               [] p = "mc" -> mc_scores
               [] p = "ex" -> ex_scores

\* the phase's detail map in the returned record
Details(p) == CASE p = "sc" -> ret.details_sc
                [] p = "mc" -> ret.details_mc
                [] p = "ex" -> ret.details_ex

\* the phase's flag among run_suite's arguments
Flag(p) == CASE p = "sc" -> args.run_sc
             [] p = "mc" -> args.run_mc
             [] p = "ex" -> args.run_extra

PhaseRank(p) == CASE p = "sc" -> 1 [] p = "mc" -> 2 [] p = "ex" -> 3

PhaseLen(p) == IF p = "ex" THEN NumEx ELSE NumSc

Phases == {"sc", "mc", "ex"}

Descriptors == {<<p, k>> : p \in Phases, k \in 1..Max(NumSc, NumEx)}
                 \cap {d \in Phases \X Nat : d[2] <= PhaseLen(d[1])}

\* descriptor d comes before descriptor e in a full run
Before(d, e) ==
    \/ PhaseRank(d[1]) < PhaseRank(e[1])
    \/ d[1] = e[1] /\ d[2] < e[2]

\* the descriptors whose call has begun, in the order in which it began
RECURSIVE StartsOf(_)
StartsOf(log) ==
    IF log = <<>> THEN <<>>
    ELSE IF Head(log)[1] = "start"
         THEN << <<Head(log)[2], Head(log)[3]>> >> \o StartsOf(Tail(log))
         ELSE StartsOf(Tail(log))

Started(d) == \E n \in 1..Len(invLog) : invLog[n] = <<"start", d[1], d[2]>>
Ended(d)   == \E n \in 1..Len(invLog) : invLog[n] = <<"end", d[1], d[2]>>

PhaseList(p, on) == IF on THEN [k \in 1..PhaseLen(p) |-> <<p, k>>] ELSE <<>>

\* the calls of an uncancelled run with flags a
Expected(a) == PhaseList("sc", a.run_sc) \o PhaseList("mc", a.run_mc)
                 \o PhaseList("ex", a.run_extra)

IsPrefix(s, t) == Len(s) <= Len(t) /\ \A n \in 1..Len(s) : s[n] = t[n]

\* a stop() came after `self.running = True` and not after the last check
StopInWindow == \E e \in stopLog : e[1] \notin {"early", "late"}

Returned == pc = "done" /\ ret.kind \in {"None", "dict"}

\* the phase's summary score in the returned record
Summary(p) == CASE p = "sc" -> ret.sc_score
                [] p = "mc" -> ret.mc_score
                [] p = "ex" -> ret.extra_score

\* what the engine and a run in progress consist of, the flag aside
stop_frame == <<num_cores, num_processes, pc, args, i, j, sc_scores,
                mc_scores, ex_scores, ret, mc_pool, mc_pool_size,
                mc_pools_made, ex_pools, ex_mgr, ex_procs, ex_leaked,
                uncaught, invLog, raised>>

----------------------------------------------------------------------------
(* Properties *)

\* C1 as stated: the value run_suite returns is None exactly when stop() was
\* invoked between its entry and its return, and a run without stop() returns
\* a result record.
C1_NoneIffStopped ==
    Returned =>
        /\ (ret.kind = "None") <=> (stopLog # {})
        /\ stopLog = {} => ret.kind = "dict"

\* What the code does instead: when run_suite returns, it returns None
\* exactly when a stop() came after `self.running = True` and no later than
\* the last check of the flag; a run without stop() never returns None.
NoneIffStoppedInWindow ==
    pc = "done" =>
        /\ ret.kind \in {"None", "dict"} =>
              ((ret.kind = "None") <=> StopInWindow)
        /\ stopLog = {} => ret.kind # "None"
        /\ stopLog = {} /\ uncaught = "none" => ret.kind = "dict"

\* C2: a stop() during the call of descriptor k leaves k scored (if it does
\* not raise) and no later descriptor, of this or a later phase, is called
\* or scored.
C2_TaskGranular ==
    \A e \in stopLog :
        e[1] \in Phases =>
            /\ \A d \in Descriptors :
                  Before(e, d) => ~Started(d) /\ d[2] \notin DOMAIN Scores(d[1])
            /\ Ended(e) /\ e \notin raised => e[2] \in DOMAIN Scores(e[1])

C2_Witness ==
    /\ pc = "done"
    /\ <<"sc", 1>> \in stopLog
    /\ DOMAIN sc_scores = {1}
    /\ args.run_mc /\ args.run_extra
    /\ invLog = << <<"start", "sc", 1>>, <<"end", "sc", 1>> >>

\* C3 as stated: running is false until run_suite is entered, true while it
\* executes uncancelled, and false again once it has returned a result or
\* None.
C3_RunningFlag ==
    /\ pc = "idle" => ~running
    /\ pc \notin {"idle", "called", "done"} /\ stopLog = {} => running
    /\ Returned => ~running

\* C4 as stated: after any stop() made once run_suite has been called, no
\* further descriptor is started and the call returns None.
C4_StopAlwaysObserved ==
    [][ /\ stopLog # {} =>
              ~ ( /\ Len(invLog') = Len(invLog) + 1
                  /\ invLog'[Len(invLog')][1] = "start" )
        /\ stopLog # {} /\ pc # "done" /\ pc' = "done" /\ uncaught' = "none"
              => ret'.kind = "None"
      ]_vars

\* C5: a descriptor whose call raised has no entry in its phase's map, the
\* descriptors after it are still called and scored, and run_suite returns
\* a result record.
C5_FailureIsolation ==
    /\ \A e \in raised : e[2] \notin DOMAIN Scores(e[1])
    /\ pc = "done" /\ ~StopInWindow /\ uncaught = "none" =>
          /\ ret.kind = "dict"
          /\ \A e \in raised : e[2] \notin DOMAIN Details(e[1])
          /\ \A d \in Descriptors :
                Flag(d[1]) =>
                    /\ Started(d)
                    /\ d \in raised \/ d[2] \in DOMAIN Scores(d[1])

C5_Witness ==
    /\ pc = "done"
    /\ ret.kind = "dict"
    /\ raised = {<<"sc", 1>>, <<"mc", 1>>, <<"ex", 1>>}
    /\ DOMAIN ret.details_sc = 2..NumSc
    /\ DOMAIN ret.details_mc = 2..NumSc
    /\ DOMAIN ret.details_ex = 2..NumEx

\* C6 as stated: when the creation of the throughput pool fails, the extra
\* phase (if enabled) still runs and run_suite returns a result record.
C6_PoolFailureNotFatal ==
    pc = "done" /\ uncaught = "pool" /\ stopLog = {} =>
        /\ ret.kind = "dict"
        /\ args.run_extra => Started(<<"ex", 1>>)

\* C7: the throughput phase creates one pool of num_cores workers, the pool
\* is alive during every descriptor of the phase, also after a worker raised,
\* at most one is alive at any time and none outside the phase.
C7_OnePool ==
    /\ mc_pool <= 1
    /\ mc_pools_made <= 1
    /\ pc \in InWith =>
          mc_pool = 1 /\ mc_pools_made = 1 /\ mc_pool_size = num_cores
    /\ pc \notin InWith => mc_pool = 0

C7_Witness ==
    /\ pc = "mc_call"
    /\ i = 2
    /\ <<"mc", 1>> \in raised
    /\ mc_pool = 1

\* C8 as stated: outside the call of a system/extra workload no pool, no
\* process and no manager started by one is alive.
C8_ExtraTeardown ==
    pc \notin InExCall =>
        ex_pools = 0 /\ ex_procs = 0 /\ ex_mgr = 0 /\ ex_leaked = {}

\* C9: calls begin in list order within a phase and in the order sequential,
\* throughput, extra across phases, each after the previous one has ended;
\* a completed run makes exactly the calls of its enabled phases.
C9_Ordering ==
    /\ IsPrefix(StartsOf(invLog), Expected(args))
    /\ \A n \in 1..Len(invLog) :
          IF n % 2 = 1
          THEN invLog[n][1] = "start"
          ELSE invLog[n] = <<"end", invLog[n - 1][2], invLog[n - 1][3]>>
    /\ pc = "done" /\ ret.kind = "dict" => StartsOf(invLog) = Expected(args)

C9_Witness ==
    /\ pc = "done"
    /\ ret.kind = "dict"
    /\ args = [run_sc |-> TRUE, run_mc |-> FALSE, run_extra |-> TRUE]
    /\ Len(invLog) = 2 * (NumSc + NumEx)

\* C10: calculate_score is floor(baseline / actual * 1000 * scale) for
\* positive baseline and actual and scale >= 1, is 0 when actual <= 0, and
\* leaves the engine as it was.
C10_Score ==
    score_res # <<>> =>
        LET b == score_arg.baseline_time
            a == score_arg.actual_time
            s == score_arg.scale_factor
        IN  /\ b > 0 /\ a > 0 /\ s >= 1 => score_res[1] = Floor(b * 1000 * s, a)
            /\ a <= 0 => score_res[1] = 0
            /\ running = FALSE /\ pc = "idle" /\ ret.kind = "pending"
            /\ num_cores \in 1..MaxCores /\ num_processes = num_cores

C10_Witness ==
    /\ score_arg = [baseline_time |-> 5, actual_time |-> 3, scale_factor |-> 2]
    /\ score_res = <<3333>>

\* C11 as stated: for a positive baseline and duration, the score with scale
\* N is N times the score of the same baseline and duration with scale 1.
C11_ExactScaling ==
    Len(score_res) = 2 /\ score_arg.baseline_time > 0
                       /\ score_arg.actual_time > 0 =>
        score_res[1] = score_arg.scale_factor * score_res[2]

\* C11 amended: for a baseline >= 0 the score with scale N is at least N
\* times the score with scale 1 and exceeds it by less than N; for a
\* duration <= 0 both are 0.
C11_ScalingWithinN ==
    Len(score_res) = 2 =>
        LET N == score_arg.scale_factor
        IN  /\ score_arg.baseline_time >= 0 =>
                  /\ N * score_res[2] <= score_res[1]
                  /\ score_res[1] <= N * score_res[2] + (N - 1)
            /\ score_arg.actual_time <= 0 =>
                  score_res[1] = 0 /\ score_res[2] = 0

\* baseline 0.05 s, duration 0.03 s: 1666 with scale 1, 3333 with scale 2
C11_Witness ==
    /\ score_arg = [baseline_time |-> 5, actual_time |-> 3, scale_factor |-> 2]
    /\ score_res = <<3333, 1666>>

\* C12 as stated: run_contention returns P * (I // P), P the process count
\* and I the iteration budget.
C12_ContentionCount ==
    wl_pc = "returned" =>
        wl_ret[1] = num_processes * (budget \div num_processes)

\* what run_contention does return: every process increments max(1, I // P)
\* times and no increment is lost
ContentionCountFloorOne ==
    wl_pc = "returned" =>
        wl_ret[1] = num_processes * Max(1, budget \div num_processes)

\* the consumers, and the items the queue has given to them
Consumers == {k \in DOMAIN p_pc : k > n_prod}
Deliveries == {<<k, n>> \in Consumers \X (1..MaxBudget + 1) : n <= Len(got[k])}

\* C13: the producers put itemsPerProducer * producers items in all, which
\* is the value returned; every item a consumer gets was put, and no item is
\* given to two consumers or twice to one.
C13_Conservation ==
    /\ Len(produced) <= items_per_prod(budget) * n_prod
    /\ (\A k \in 1..n_prod : k \in DOMAIN p_pc /\ p_pc[k] = "done") =>
          Len(produced) = items_per_prod(budget) * n_prod
    /\ wl_pc = "returned" => wl_ret[1] = Len(produced)
    /\ \A d \in Deliveries :
          /\ \E n \in 1..Len(produced) : produced[n] = got[d[1]][d[2]]
          /\ \A e \in Deliveries :
                got[d[1]][d[2]] = got[e[1]][e[2]] => d = e
    /\ \A n, m \in 1..Len(produced) : produced[n] = produced[m] => n = m

\* two producers and two consumers are through and every item went to one
\* of the consumers
C13_Witness ==
    /\ wl_pc = "returned"
    /\ n_prod = 2 /\ n_cons = 2
    /\ Len(produced) = 4
    /\ queue = <<>>
    /\ \A k \in Consumers : Len(got[k]) = 2

\* C14: started on any P and any items, run_producer_consumer comes to its
\* end with every process it started finished, and it returns only when all
\* producers and consumers have finished.
C14_Terminates ==
    /\ <>(wl_pc \in {"returned", "raised"} /\ Done)
    /\ [](wl_pc = "returned" => Len(p_pc) = n_prod + n_cons /\ Done)

\* one producer, two consumers, three items: each consumer takes one and the
\* third stays on the queue
C14_Witness ==
    /\ wl_pc = "returned"
    /\ n_prod = 1 /\ n_cons = 2
    /\ budget = 3
    /\ Len(queue) = 1
    /\ Done

\* C15: a run that returns without having been cancelled returns a result
\* record in which every disabled phase has an empty detail map and the
\* summary score 0; a cancelled run returns None instead.
C15_DisabledPhase ==
    /\ pc = "done" /\ uncaught = "none" /\ ~StopInWindow =>
          /\ ret.kind = "dict"
          /\ \A p \in Phases :
                ~Flag(p) => Details(p) = NoScores /\ Summary(p) = 0
    /\ Returned /\ StopInWindow => ret.kind = "None"

C15_Witness ==
    /\ pc = "done"
    /\ ret.kind = "dict"
    /\ args = [run_sc |-> TRUE, run_mc |-> FALSE, run_extra |-> FALSE]
    /\ DOMAIN ret.details_sc = 1..NumSc
    /\ ret.details_mc = NoScores /\ ret.mc_score = 0
    /\ ret.details_ex = NoScores /\ ret.extra_score = 0

\* C16: in a returned record each phase's detail map holds the descriptors
\* of the phase that ran and did not raise, and the phase's summary score is
\* the mean of the map's values truncated to an integer, 0 for an empty map.
C16_Aggregation ==
    ret.kind = "dict" =>
        \A p \in Phases :
            LET D == Details(p)
                n == Cardinality(DOMAIN D)
                t == SumOver(D, DOMAIN D)
                s == Summary(p)
            IN  /\ DOMAIN D = {k \in 1..PhaseLen(p) :
                                  Flag(p) /\ <<p, k>> \notin raised}
                /\ n = 0 => s = 0
                /\ n > 0 => n * s <= t /\ t < n * (s + 1)

\* every sequential descriptor raised; one throughput descriptor raised and
\* the mean of the others is not an integer
C16_Witness ==
    /\ ret.kind = "dict"
    /\ args.run_sc /\ ret.details_sc = NoScores /\ ret.sc_score = 0
    /\ \E k \in 1..NumEx :
          /\ <<"ex", k>> \in raised
          /\ DOMAIN ret.details_ex = (1..NumEx) \ {k}
          /\ SumOver(ret.details_ex, DOMAIN ret.details_ex)
                % Cardinality(DOMAIN ret.details_ex) # 0

\* C17: stop() sets running to false and changes nothing else; in particular
\* a stop() when running is already false, as right after another stop(),
\* changes nothing at all.
C17_StopFrame ==
    [][ stop => /\ running' = FALSE
                /\ UNCHANGED stop_frame
                /\ ~running => UNCHANGED <<running, stop_frame>>
      ]_vars

\* two stop() calls have been made during a run that had collected a score
C17_Witness ==
    /\ Cardinality(stopLog) >= 2
    /\ ~running
    /\ DOMAIN sc_scores = {1}
    /\ pc = "sc_loop"

\* C19 as stated: the record returned by a completed run with the
\* sequential and throughput phases enabled has a total_score entry > 0.
C19_TotalScore ==
    pc = "done" /\ ret.kind = "dict" /\ args.run_sc /\ args.run_mc =>
        /\ "total_score" \in DOMAIN ret
        /\ ret.total_score > 0

\* C18: no step changes num_cores, and the size of the throughput pool, the
\* number of work items handed to pool.starmap and the scale factor of the
\* throughput scores are all num_cores.
C18_CoreCountFixed ==
    [][ /\ num_cores' = num_cores
        /\ pc' \in InWith => mc_pool_size' = num_cores'
        /\ work_items' # <<>> => Len(work_items') = num_cores'
        /\ mc_scale' # 0 => mc_scale' = num_cores'
      ]_vars

C18_Witness ==
    /\ pc = "mc_loop"
    /\ i = 2
    /\ num_cores = MaxCores
    /\ mc_pool_size = MaxCores
    /\ Len(work_items) = MaxCores
    /\ mc_scale = MaxCores
    /\ 1 \in DOMAIN mc_scores

\* C20 as stated: a batch is num_cores identical work items, each pool
\* worker runs exactly one of them, the measured time reaches from the
\* dispatch to the end of the last invocation, and the score recorded is
\* calculate_score(baseline, elapsed, num_cores).
C20_Dispatch ==
    /\ pc = "mc_batch" =>
          /\ Len(work_items) = num_cores
          /\ \A k \in 1..Len(work_items) : work_items[k] = work_items[1]
          /\ task_q = 0 /\ w_busy = {} =>
                \A w \in 1..num_cores : w_ran[w] = 1
    /\ pc = "mc_loop" /\ i > 1 /\ <<"mc", i - 1>> \notin raised =>
          /\ elapsed >= last_done
          /\ mc_scores[i - 1] =
                calculate_score(ScTask(i - 1).baseline, elapsed, num_cores)

\* what does hold of a batch: num_cores identical items, each run once by
\* some worker of the pool, and the score as stated
DispatchedOnceEach ==
    /\ pc = "mc_batch" =>
          /\ Len(work_items) = num_cores
          /\ \A k \in 1..Len(work_items) : work_items[k] = work_items[1]
          /\ DOMAIN w_ran = 1..num_cores
          /\ task_q + SumOver(w_ran, DOMAIN w_ran) = num_cores
    /\ pc = "mc_loop" /\ i > 1 /\ <<"mc", i - 1>> \notin raised =>
          /\ elapsed >= last_done
          /\ mc_scores[i - 1] =
                calculate_score(ScTask(i - 1).baseline, elapsed, num_cores)

\* positions of the run_suite thread inside the extra phase
InExPhase == InExCall \cup {"ex_loop", "ex_ok", "ex_err"}

\* how often the call of descriptor d has begun
Starts(d) ==
    Cardinality({n \in 1..Len(invLog) : invLog[n] = <<"start", d[1], d[2]>>})

\* C21: the extra runner begins the call of a descriptor at most once, and
\* exactly once in a run that returns a record; it holds no pool of its own
\* (pools exist only inside a workload's call); every score it records is
\* calculate_score(baseline, elapsed, 1), whatever num_cores is.
C21_ExtraRunner ==
    /\ \A k \in 1..NumEx : Starts(<<"ex", k>>) <= 1
    /\ ret.kind = "dict" /\ args.run_extra =>
          \A k \in 1..NumEx : Starts(<<"ex", k>>) = 1
    /\ pc \in InExPhase => mc_pool = 0
    /\ pc \in InExPhase \ {"ex_map"} => ex_pools = 0
    /\ \A k \in DOMAIN ex_scores :
          \E d \in Durations :
              ex_scores[k] = IntTrunc(ExTask(k).baseline * 1000, d)

C21_Witness ==
    /\ pc = "done"
    /\ ret.kind = "dict"
    /\ num_cores = MaxCores
    /\ DOMAIN ret.details_ex = 1..NumEx
    /\ \E d \in Durations :
          ret.details_ex[1] = IntTrunc(ExTask(1).baseline * 1000, d)

\* the workers inside `with lock:`
InCritical == {k \in DOMAIN p_pc : p_pc[k] \in {"read", "write", "release"}}

\* increments worker k has written so far
Written(k) == Max(1, budget \div num_processes) - p_left[k]
                + (IF p_pc[k] = "release" THEN 1 ELSE 0)

RECURSIVE SumWritten(_)
SumWritten(n) == IF n = 0 THEN 0 ELSE Written(n) + SumWritten(n - 1)

\* C23: at most one worker is inside `with lock:`, it is the holder of the
\* lock, the lock is free whenever no worker is inside, and the shared value
\* is the number of increments written so far.
C23_MutualExclusion ==
    /\ Cardinality(InCritical) <= 1
    /\ \A k \in InCritical : lock = k
    /\ InCritical = {} => lock = 0
    /\ shared_val = SumWritten(Len(p_pc))

\* one worker is about to write its second increment while another, with
\* increments left, waits for the lock
C23_Witness ==
    /\ Len(p_pc) >= 2
    /\ p_pc[1] = "write" /\ lock = 1 /\ p_tmp[1] = 2
    /\ p_pc[2] = "loop" /\ p_left[2] > 0
    /\ shared_val = 2

\* the split as the specification words it, for P workers and a budget
SplitProducers(P) == Max(1, P \div 2)
SplitConsumers(P) == Max(1, P - SplitProducers(P))
SplitTotal(P, items) == (items \div SplitProducers(P)) * SplitProducers(P)

\* the process started by this step, if any, is a producer with
\* items // producers items to put when fewer than `producers` processes
\* were started before it, else a consumer with totalItems // consumers
\* items to get
StartsAsSplit ==
    Len(p_pc') = Len(p_pc) + 1 =>
        LET k == Len(p_pc')
            P == num_processes
        IN  IF k <= SplitProducers(P)
            THEN /\ p_pc'[k] = "put"
                 /\ p_left'[k] = budget \div SplitProducers(P)
            ELSE /\ p_pc'[k] = "get"
                 /\ p_left'[k] = SplitTotal(P, budget) \div SplitConsumers(P)

\* C24 as stated: max(1, P // 2) producers and max(1, P - producers)
\* consumers are started, P processes in all, with items // producers and
\* totalItems // consumers items each.
C24_SplitIsP ==
    [][ /\ StartsAsSplit
        /\ wl_pc' = "join" =>
              /\ Len(p_pc') = SplitProducers(num_processes)
                                + SplitConsumers(num_processes)
              /\ Len(p_pc') = num_processes
      ]_vars

\* C24 amended: the processes started are P in all when P >= 2, and two,
\* one producer and one consumer, when P = 1.
C24_Split ==
    [][ /\ StartsAsSplit
        /\ wl_pc' = "join" =>
              /\ Len(p_pc') = SplitProducers(num_processes)
                                + SplitConsumers(num_processes)
              /\ Len(p_pc') = IF num_processes = 1 THEN 2 ELSE num_processes
      ]_vars

\* P = 1: a producer and a consumer have been started
C24_Witness ==
    /\ wl_pc = "join"
    /\ num_processes = 1
    /\ Len(p_pc) = 2
    /\ budget = MaxBudget
    /\ Len(produced) + p_left[1] = MaxBudget

\* items the consumers have got so far
RECURSIVE SumGot(_)
SumGot(n) == IF n = 0 THEN 0 ELSE Len(got[n]) + SumGot(n - 1)

\* C25: the consumers never have more items than were put; put items are
\* with a consumer or on the queue; when the call returns, totalItems mod
\* consumers items are left on the queue and the value returned is
\* totalItems, the number produced.
C25_Remainder ==
    LET total == SplitTotal(num_processes, budget)
        cons  == SplitConsumers(num_processes)
    IN  /\ SumGot(Len(got)) <= Len(produced)
        /\ SumGot(Len(got)) + Len(queue) = Len(produced)
        /\ wl_pc = "returned" =>
              /\ Len(queue) = total % cons
              /\ wl_ret[1] = total
              /\ Len(produced) = total
              /\ SumGot(Len(got)) = total - (total % cons)

\* three consumers, four items: one item is left and 4 is returned
C25_Witness ==
    /\ wl_pc = "returned"
    /\ n_cons >= 2
    /\ Len(queue) = 1
    /\ wl_ret[1] = SumGot(Len(got)) + 1

\* iterations run in all: every execution of a task runs the task's share
RECURSIVE WorkDone(_)
WorkDone(n) ==
    IF n = 0 THEN 0 ELSE work_items[n] * Len(ran_by[n]) + WorkDone(n - 1)

\* C22: a partitioned map submits P items of max(1, I // P) iterations
\* each, at least 1, and when it returns P * max(1, I // P) iterations have
\* been run.
C22_PartitionedMap ==
    wl_pc \in {"map", "returned"} =>
        LET share == Max(1, budget \div num_processes)
        IN  /\ Len(work_items) = num_processes
            /\ \A k \in 1..Len(work_items) :
                  work_items[k] = share /\ work_items[k] >= 1
            /\ wl_pc = "returned" =>
                  WorkDone(Len(work_items)) = num_processes * share

\* fewer iterations than workers: every worker's share is still 1
C22_Witness ==
    /\ wl_pc = "returned"
    /\ num_processes = MaxProcs
    /\ budget = MaxProcs - 1
    /\ \A k \in 1..MaxProcs : work_items[k] = 1 /\ Len(ran_by[k]) = 1

\* C26: run_work_stealing_sim submits `iterations` tasks of one size to one
\* pool of P workers; no task is run twice, every task has been run once
\* and no worker is busy when the call returns, and it returns `iterations`.
C26_WorkSteal ==
    wl_pc \in {"map", "returned"} =>
        /\ Len(work_items) = budget
        /\ \A k \in 1..Len(work_items) : work_items[k] = work_items[1]
        /\ DOMAIN w_ran = 1..num_processes
        /\ \A k \in 1..Len(work_items) :
              /\ Len(ran_by[k]) <= 1
              /\ \A n \in 1..Len(ran_by[k]) : ran_by[k][n] \in 1..num_processes
        /\ wl_pc = "returned" =>
              /\ \A k \in 1..Len(work_items) : Len(ran_by[k]) = 1
              /\ w_busy = {}
              /\ wl_ret[1] = budget

\* one worker, five tasks in chunks of two; and several workers that have
\* shared the tasks unevenly
C26_Witness ==
    /\ wl_pc = "returned"
    /\ budget = MaxTasks
    /\ \/ num_processes = 1 /\ w_ran[1] = 3
       \/ num_processes > 1 /\ w_ran[1] = 0 /\ w_ran[2] = MaxTasks

\* C27: the baseline the throughput runner scores a descriptor against is
\* not the value the sequential runner uses for the same descriptor.
C27_DistinctBaselines ==
    pc \in {"mc_call", "mc_batch"} => McTask(i).baseline # ScTask(i).baseline

\* C28: a run_suite call that begins after a stop() made while the engine
\* was idle, with no stop() during the run, has running true from its first
\* statement on, never returns None, and the record it returns comes after
\* every descriptor of every enabled phase was started.
C28_IdleStopForgotten ==
    idle_stop = "carried" =>
        /\ pc = "called" => ~running
        /\ pc # "called" => running
        /\ stopLog = {}
        /\ ret.kind # "None"
        /\ ret.kind = "dict" => StartsOf(invLog) = Expected(args)

\* a full run after an idle stop() has returned its record
C28_Witness ==
    /\ idle_stop = "carried"
    /\ pc = "done"
    /\ ret.kind = "dict"
    /\ args.run_sc /\ args.run_mc /\ args.run_extra
    /\ Len(StartsOf(invLog)) = 2 * NumSc + NumEx

\* C29: update_progress is never called, whatever the flags, the failures
\* and the stops, and self.log has been called at least once for every
\* descriptor started.
C29_ProgressNeverLogAlways ==
    /\ progress_calls = 0
    /\ log_calls >= Len(StartsOf(invLog))

\* a cancelled run in which a descriptor raised
C29_Witness ==
    /\ pc = "done"
    /\ ret.kind = "None"
    /\ raised # {}
    /\ Len(StartsOf(invLog)) >= 2
    /\ log_calls >= 2
    /\ progress_calls = 0

====
